---- MODULE Spec2Model ----
(***************************************************************************)
(* The session broker of the multi-client chat server (server.c): the      *)
(* registry of client slots, the room directory, the per-room logs, the    *)
(* per-connection workers and the pipes that connect them to the broker.   *)
(*                                                                         *)
(* Text is kept structured so that the two delimiters of the wire grammar  *)
(* stay visible: a Field is a string without '|', held as the sequence of  *)
(* its words (the string split at each ' '); a control message or a client *)
(* line is the sequence of its Fields (the line split at each '|').        *)
(* "a b" is <<"a","b">>, "" is <<"">>, "JOIN|a|lobby" is                  *)
(* << <<"JOIN">>, <<"a">>, <<"lobby">> >>.                                 *)
(***************************************************************************)
EXTENDS Integers, Sequences, FiniteSets, TLC

\* ------------------------------------------------------------ constants
\* server.c: #define MAX_CLIENTS 128, scaled down
MAX_CLIENTS == 2
\* server.c: #define MAX_ROOMS 128, scaled down
MAX_ROOMS == 3
\* lines the clients type, or connections they close, in a run
MaxInput == 3

Slots == 0 .. (MAX_CLIENTS - 1)

S(w) == <<w>>
EmptyStr == <<"">>
\* a NULL char pointer
NULL == <<>>

ADMIN_PASSWORD == S("admin123")

\* ------------------------------------------------------------ server lines
\* "[%s] %s: %s"
RoomLine(room, sender, text) == <<S("[room]"), room, sender, text>>
\* "Welcome %s to %s"
WelcomeLine(username, room) == <<S("Welcome"), username, room>>
BannerLine == <<S("Welcome to MultiChat! Use /nick, /join, /pm, /rooms")>>
MutedLine == <<S("You are muted.")>>
PMLine(from, text) == <<S("[PM]"), from, text>>
PMSentLine(to) == <<S("PM sent to"), to>>
PMNotFoundLine(to) == <<S("User not found (PM)"), to>>
AppealLine(from, text) == <<S("[APPEAL]"), from, text>>
AppealDupLine == <<S("Your appeal was already sent to admins recently.")>>
AppealNoneLine == <<S("No admins currently online. Try again later.")>>
AppealSentLine(n) == <<S("Your appeal was sent to admin(s)."), S(ToString(n))>>
NoHistoryLine(room) == <<S("No history for"), room>>
NoRoomsLine == <<S("No rooms")>>
RoomNameLine(r) == <<S("room"), r>>
GoodbyeLine == <<S("Goodbye")>>
AdminMalformedLine == <<S("Admin malformed")>>
AdminAuthFailedLine == <<S("Admin auth failed")>>
AdminNoActionLine == <<S("Admin: no action")>>
RequiresUserLine(action) == <<S("requires username"), action>>
KickedLine == <<S("You have been kicked by admin")>>
UserNotFoundLine == <<S("User not found")>>
MutedByAdminLine == <<S("You are muted by admin")>>
UnmutedByAdminLine == <<S("You are unmuted by admin")>>
AdminRoomsHeadLine(n) == <<S("Rooms:"), S(ToString(n))>>
AdminRoomLine(r) == <<S(" - room"), r>>
ActiveUsersLine(n) == <<S("Active users:"), S(ToString(n))>>
AdminUserLine(u, r) == <<S(" - user"), u, r>>
UnknownAdminLine(w) == <<S("Unknown admin action:"), w>>
UnknownCommandLine(w) == <<S("Unknown command:"), w>>
ShutdownLine == <<S("/server_shutdown")>>

\* ------------------------------------------------------------ effects
\* what a handler does to the outside, in program order: a write of a line
\* to a slot's to_child_fd, or an append of a line to a room's log file
W(k, line) == [to |-> k, room |-> NULL, line |-> line]
L(room, line) == [to |-> -1, room |-> room, line |-> line]
\* a write to a pipe that no process has open for reading: SIGPIPE, whose
\* default action ends the process (main installs no handler for it)
Kill == [to |-> -2, room |-> NULL, line |-> NULL]
\* close(clients[k].fd), fd one of "from_child_fd" and "to_child_fd"
Close(k, fd) == [to |-> -3, room |-> NULL, line |-> <<S(fd), S(ToString(k))>>]

\* index of the first element of s satisfying P, 0 if none
First(s, P(_)) ==
    IF \E n \in 1 .. Len(s) : P(s[n])
    THEN CHOOSE n \in 1 .. Len(s) : P(s[n]) /\ \A m \in 1 .. (n - 1) : ~P(s[m])
    ELSE 0

\* the slots in increasing order, as the for loops of server.c visit them
SlotSeq == [n \in 1 .. MAX_CLIENTS |-> n - 1]

\* ------------------------------------------------------------ helpers
\* A string of more than 63 bytes without ' ' or '|', and its first 63
\* bytes. Every other word of the model is shorter than 64 bytes.
Long70 == "name-of-70-bytes"
Long63 == "name-of-70-bytes, cut at 63"

\* strncpy(dst, src, sizeof(dst) - 1) into a char[64] whose last byte is
\* '\0': the first 63 bytes of src
Cut(src) == IF src = S(Long70) THEN S(Long63) ELSE src

add_room_if_missing(rms, r) ==
    IF r = NULL \/ r = EmptyStr THEN rms
    ELSE IF \E n \in 1 .. Len(rms) : rms[n] = r THEN rms
    ELSE IF Len(rms) < MAX_ROOMS THEN Append(rms, Cut(r))
    ELSE rms

\* words the filter program (./filter, filter.c) replaces
Offensive == {"bad"}

\* what ./filter prints for a line: each offensive word masked
FilterProgram(input) ==
    [n \in DOMAIN input |-> IF input[n] \in Offensive THEN "***" ELSE input[n]]

\* What becomes of one run of the filter. "out": it prints its line. "none":
\* pipe() or fork() failed, or the child could not execute ./filter and the
\* read from it returned nothing; the input comes back unchanged. "pipe": the
\* child could not execute ./filter and had exited (259) before the parent
\* wrote the input to it (264), to a pipe whose read end the parent has just
\* closed (262).
FilterRuns == {"out", "none", "pipe"}

run_filter_and_get_output(input, ok) ==
    IF ok = "out" THEN FilterProgram(input) ELSE input

\* the effects of a call of run_filter_and_get_output
FilterEffects(ok) == IF ok = "pipe" THEN <<Kill>> ELSE <<>>

\* the writes of a line to every slot that satisfies hit, in slot order
WriteEach(hit(_), line) ==
    LET to == SelectSeq(SlotSeq, hit)
    IN [n \in 1 .. Len(to) |-> W(to[n], line)]

\* a fan-out that writes the line to the sessions before it appends it to
\* the log
broadcast_to_room_writes_first(cl, rms, room, from, msg, ok) ==
    IF room = NULL THEN [rms |-> rms, eff |-> <<>>]
    ELSE LET filtered == run_filter_and_get_output(IF msg = NULL THEN EmptyStr ELSE msg, ok)
             sender == IF from = NULL THEN S("server") ELSE from
             line == RoomLine(room, sender, filtered)
             hit(k) == cl[k].connected /\ (room = S("global") \/ cl[k].room = room)
         IN [rms |-> add_room_if_missing(rms, room),
             eff |-> FilterEffects(ok) \o WriteEach(hit, line) \o <<L(room, line)>>]

broadcast_to_room(cl, rms, room, from, msg, ok) ==
    IF room = NULL THEN [rms |-> rms, eff |-> <<>>]
    ELSE LET filtered == run_filter_and_get_output(IF msg = NULL THEN EmptyStr ELSE msg, ok)
             sender == IF from = NULL THEN S("server") ELSE from
             line == RoomLine(room, sender, filtered)
             hit(k) == cl[k].connected /\ (room = S("global") \/ cl[k].room = room)
         IN [rms |-> add_room_if_missing(rms, room),
             eff |-> FilterEffects(ok) \o <<L(room, line)>> \o WriteEach(hit, line)]

\* a scan that, finding no free slot, hands out slot 0
find_free_slot_wraps(cl) ==
    IF \E k \in Slots : ~cl[k].connected
    THEN CHOOSE k \in Slots : ~cl[k].connected /\ \A j \in 0 .. (k - 1) : cl[j].connected
    ELSE 0

\* a scan from the last slot down
find_free_slot_from_top(cl) ==
    IF \E k \in Slots : ~cl[k].connected
    THEN CHOOSE k \in Slots : ~cl[k].connected /\ \A j \in (k + 1) .. (MAX_CLIENTS - 1) : cl[j].connected
    ELSE -1

find_free_slot(cl) ==
    IF \E k \in Slots : ~cl[k].connected
    THEN CHOOSE k \in Slots : ~cl[k].connected /\ \A j \in 0 .. (k - 1) : cl[j].connected
    ELSE -1

find_client_by_name(cl, name) ==
    IF name = NULL THEN -1
    ELSE IF \E k \in Slots : cl[k].connected /\ cl[k].username = name
    THEN CHOOSE k \in Slots :
             /\ cl[k].connected /\ cl[k].username = name
             /\ \A j \in 0 .. (k - 1) : ~(cl[j].connected /\ cl[j].username = name)
    ELSE -1

\* the writes of send_private, <<>> when it returns false
send_private(cl, from, to, msg, ok) ==
    IF from = NULL \/ to = NULL \/ msg = NULL THEN <<>>
    ELSE LET k == find_client_by_name(cl, to)
         IN IF k < 0 THEN <<>>
            ELSE FilterEffects(ok)
                 \o <<W(k, PMLine(from, run_filter_and_get_output(msg, ok)))>>

\* strtok_r(buf, "|", &save) and its successors: the non-empty fields
Tokens(buf) == SelectSeq(buf, LAMBDA f : f # EmptyStr)

\* the n-th token, NULL when strtok_r has run out
Tok(t, n) == IF n <= Len(t) THEN t[n] ELSE NULL

\* strtok_r(NULL, "\n", &save) after the second token of buf: the rest of the
\* line. User text holds no '|', so the rest is at most one field.
RestOfLine(buf) ==
    LET at == First(Tail(buf), LAMBDA f : f # EmptyStr) + 1
    IN IF at = 1 \/ at >= Len(buf) THEN NULL
       ELSE IF buf[at + 1] = EmptyStr /\ Len(buf) = at + 1 THEN NULL
       ELSE buf[at + 1]

\* ------------------------------------------------------------ commands
\* The branches of handle_parent_messages for one control message read from
\* slot i. t: the tokens of the message; cl, rms, lam: clients, rooms and
\* last_appeal_msg; ok: what becomes of the filter process. Each yields the
\* new cl, rms, lam and the effects in program order.
Res(cl, rms, lam, eff) == [cl |-> cl, rms |-> rms, lam |-> lam, eff |-> eff]

\* a JOIN that records the name and leaves the room as it was
handle_JOIN_keeps_room(cl, rms, lam, i, t, ok) ==
    LET username == Tok(t, 2)
        room == Tok(t, 3)
    IN IF username = NULL \/ room = NULL THEN Res(cl, rms, lam, <<>>)
       ELSE LET cl1 == [cl EXCEPT ![i].username = Cut(username)]
                rms1 == add_room_if_missing(rms, room)
                b == broadcast_to_room(cl1, rms1, room, S("server"),
                                       <<"a", "new", "user", "has", "joined">>, ok)
            IN Res(cl1, b.rms, lam, <<W(i, WelcomeLine(username, room))>> \o b.eff)

handle_JOIN(cl, rms, lam, i, t, ok) ==
    LET username == Tok(t, 2)
        room == Tok(t, 3)
    IN IF username = NULL \/ room = NULL THEN Res(cl, rms, lam, <<>>)
       ELSE LET cl1 == [cl EXCEPT ![i].username = Cut(username), ![i].room = Cut(room)]
                rms1 == add_room_if_missing(rms, room)
                b == broadcast_to_room(cl1, rms1, room, S("server"),
                                       <<"a", "new", "user", "has", "joined">>, ok)
            IN Res(cl1, b.rms, lam, <<W(i, WelcomeLine(username, room))>> \o b.eff)

handle_MSG(cl, rms, lam, i, t, ok) ==
    LET username == Tok(t, 2)
        room == Tok(t, 3)
        message == Tok(t, 4)
    IN IF username = NULL \/ room = NULL \/ message = NULL THEN Res(cl, rms, lam, <<>>)
       ELSE IF cl[i].muted THEN Res(cl, rms, lam, <<W(i, MutedLine)>>)
       ELSE LET b == broadcast_to_room(cl, rms, room, username, message, ok)
            IN Res(cl, b.rms, lam, b.eff)

handle_PM(cl, rms, lam, i, t, ok) ==
    LET from == Tok(t, 2)
        to == Tok(t, 3)
        message == Tok(t, 4)
    IN IF from = NULL \/ to = NULL \/ message = NULL THEN Res(cl, rms, lam, <<>>)
       ELSE LET p == send_private(cl, from, to, message, ok)
            IN IF p = <<>> THEN Res(cl, rms, lam, <<W(i, PMNotFoundLine(to))>>)
               ELSE Res(cl, rms, lam, p \o <<W(i, PMSentLine(to))>>)

handle_APPEAL(cl, rms, lam, i, buf) ==
    LET from == Tok(Tokens(buf), 2)
        message == RestOfLine(buf)
        sender_idx == find_client_by_name(cl, from)
        isadmin(k) == cl[k].connected /\ cl[k].is_admin
        fwd == WriteEach(isadmin, AppealLine(from, message))
        sent == Len(fwd)
    IN IF from = NULL \/ message = NULL THEN Res(cl, rms, lam, <<>>)
       ELSE IF sender_idx >= 0 /\ lam[sender_idx] # EmptyStr /\ lam[sender_idx] = message
       THEN Res(cl, rms, lam, <<W(i, AppealDupLine)>>)
       ELSE Res(cl, rms,
                IF sender_idx >= 0 THEN [lam EXCEPT ![sender_idx] = message] ELSE lam,
                fwd \o <<W(i, IF sent = 0 THEN AppealNoneLine ELSE AppealSentLine(sent))>>)

\* a replay that leaves out the lines the server itself put into the log
handle_HISTORY_skips_notices(cl, rms, lam, lg, i, t) ==
    LET room == Tok(t, 2)
        file == IF room \in DOMAIN lg THEN lg[room] ELSE <<>>
        said == SelectSeq(file, LAMBDA l : l[3] # S("server"))
    IN IF room = NULL THEN Res(cl, rms, lam, <<>>)
       ELSE IF file = <<>> THEN Res(cl, rms, lam, <<W(i, NoHistoryLine(room))>>)
       ELSE Res(cl, rms, lam, [n \in 1 .. Len(said) |-> W(i, said[n])])

\* lg: the log files; a room without a file has the empty log. The file is
\* copied in reads of 1024 bytes; the copy is kept line by line here.
handle_HISTORY(cl, rms, lam, lg, i, t) ==
    LET room == Tok(t, 2)
        file == IF room \in DOMAIN lg THEN lg[room] ELSE <<>>
    IN IF room = NULL THEN Res(cl, rms, lam, <<>>)
       ELSE IF file = <<>> THEN Res(cl, rms, lam, <<W(i, NoHistoryLine(room))>>)
       ELSE Res(cl, rms, lam, [n \in 1 .. Len(file) |-> W(i, file[n])])

handle_ROOMS(cl, rms, lam, i) ==
    IF Len(rms) = 0 THEN Res(cl, rms, lam, <<W(i, NoRoomsLine)>>)
    ELSE Res(cl, rms, lam, [n \in 1 .. Len(rms) |-> W(i, RoomNameLine(rms[n]))])

\* close(from_child_fd), close(to_child_fd) and connected = false of slot k:
\* the registry after them, and the two closes as effects
Released(cl, k) ==
    [cl EXCEPT ![k].from_child_fd = "closed", ![k].to_child_fd = "closed",
               ![k].connected = FALSE]
Closes(k) == <<Close(k, "from_child_fd"), Close(k, "to_child_fd")>>

handle_QUIT(cl, rms, lam, i) ==
    Res(Released(cl, i), rms, lam, <<W(i, GoodbyeLine)>> \o Closes(i))

\* ADMIN|username|password|ACTION|args or ADMIN|username|password ACTION args:
\* the (password, action_word, action_args, next) the parse arrives at, next
\* being what a further strtok_r(NULL, "|", &save) returns
AdminParse(t) ==
    LET third == Tok(t, 3)
        action == Tok(t, 4)
        password == IF action = NULL /\ Len(third) >= 2 THEN S(third[1]) ELSE third
        action_with_args ==
            IF action = NULL
            THEN (IF Len(third) >= 2 THEN Tail(third) ELSE NULL)
            ELSE action
        action_word ==
            IF action_with_args = NULL THEN NULL
            ELSE IF Len(action_with_args) >= 2 THEN S(action_with_args[1])
            ELSE action_with_args
        action_args ==
            IF action_with_args = NULL THEN NULL
            ELSE IF Len(action_with_args) >= 2 THEN Tail(action_with_args)
            ELSE NULL
    IN [password |-> password, action_word |-> action_word,
        action_args |-> action_args,
        next |-> IF action = NULL THEN NULL ELSE Tok(t, 5)]

\* The two wire forms of an ADMIN command for (name, password, action, args),
\* password and action one word each, args a string that may be empty:
\* ADMIN|name|password|ACTION|args and ADMIN|name|password ACTION args
PipeForm(name, password, action, args) == <<S("ADMIN"), name, password, action, args>>
HybridForm(name, password, action, args) == <<S("ADMIN"), name, password \o action \o args>>

\* a comparison that only asks for a password to be there
Authenticated_any(password) == password # NULL

\* a comparison whose result is tested the wrong way round
Authenticated_inverted(password) == password # ADMIN_PASSWORD

\* strcmp(password, ADMIN_PASSWORD) == 0
Authenticated(password) == password = ADMIN_PASSWORD

handle_ADMIN(cl, rms, lam, i, t, ok) ==
    LET username == Tok(t, 2)
        third == Tok(t, 3)
        a == AdminParse(t)
        cl1 == [cl EXCEPT ![i].is_admin = TRUE]
        arg == IF a.action_args # NULL THEN a.action_args ELSE a.next
        idx == find_client_by_name(cl1, arg)
        active == Cardinality({k \in Slots : cl1[k].connected})
        named(k) == cl1[k].connected /\ cl1[k].username # EmptyStr
        users == SelectSeq(SlotSeq, named)
    IN IF username = NULL \/ third = NULL
       THEN Res(cl, rms, lam, <<W(i, AdminMalformedLine)>>)
       ELSE IF ~Authenticated(a.password)
       THEN Res(cl, rms, lam, <<W(i, AdminAuthFailedLine)>>)
       ELSE IF a.action_word = NULL
       THEN Res(cl1, rms, lam, <<W(i, AdminNoActionLine)>>)
       ELSE IF a.action_word = S("KICK")
       THEN (IF arg = NULL THEN Res(cl1, rms, lam, <<W(i, RequiresUserLine(S("KICK")))>>)
             ELSE IF idx >= 0
             THEN Res(Released(cl1, idx), rms, lam, <<W(idx, KickedLine)>> \o Closes(idx))
             ELSE Res(cl1, rms, lam, <<W(i, UserNotFoundLine)>>))
       ELSE IF a.action_word = S("MUTE")
       THEN (IF arg = NULL THEN Res(cl1, rms, lam, <<W(i, RequiresUserLine(S("MUTE")))>>)
             ELSE IF idx >= 0
             THEN Res([cl1 EXCEPT ![idx].muted = TRUE], rms, lam,
                      <<W(idx, MutedByAdminLine)>>)
             ELSE Res(cl1, rms, lam, <<W(i, UserNotFoundLine)>>))
       ELSE IF a.action_word = S("UNMUTE")
       THEN (IF arg = NULL THEN Res(cl1, rms, lam, <<W(i, RequiresUserLine(S("UNMUTE")))>>)
             ELSE IF idx >= 0
             THEN Res([cl1 EXCEPT ![idx].muted = FALSE], rms, lam,
                      <<W(idx, UnmutedByAdminLine)>>)
             ELSE Res(cl1, rms, lam, <<W(i, UserNotFoundLine)>>))
       ELSE IF a.action_word = S("BROADCAST")
       THEN LET b == broadcast_to_room(cl1, rms, S("global"), S("admin"),
                                       IF arg = NULL THEN EmptyStr ELSE arg, ok)
            IN Res(cl1, b.rms, lam, b.eff)
       ELSE IF a.action_word = S("ROOMS")
       THEN (IF Len(rms) = 0 THEN Res(cl1, rms, lam, <<W(i, NoRoomsLine)>>)
             ELSE Res(cl1, rms, lam,
                      <<W(i, AdminRoomsHeadLine(Len(rms)))>>
                      \o [n \in 1 .. Len(rms) |-> W(i, AdminRoomLine(rms[n]))]))
       ELSE IF a.action_word = S("USERS")
       THEN Res(cl1, rms, lam,
                <<W(i, ActiveUsersLine(active))>>
                \o [n \in 1 .. Len(users) |->
                       W(i, AdminUserLine(cl1[users[n]].username,
                                          IF cl1[users[n]].room # EmptyStr
                                          THEN cl1[users[n]].room ELSE S("none")))])
       ELSE Res(cl1, rms, lam, <<W(i, UnknownAdminLine(a.action_word))>>)

\* the dispatch on the first token of buf, the line read from slot i
Dispatch(cl, rms, lam, lg, i, buf, ok) ==
    LET t == Tokens(buf)
        cmd == Tok(t, 1)
    IN IF cmd = NULL THEN Res(cl, rms, lam, <<>>)
       ELSE IF cmd = S("JOIN") THEN handle_JOIN(cl, rms, lam, i, t, ok)
       ELSE IF cmd = S("MSG") THEN handle_MSG(cl, rms, lam, i, t, ok)
       ELSE IF cmd = S("PM") THEN handle_PM(cl, rms, lam, i, t, ok)
       ELSE IF cmd = S("APPEAL") THEN handle_APPEAL(cl, rms, lam, i, buf)
       ELSE IF cmd = S("HISTORY") THEN handle_HISTORY(cl, rms, lam, lg, i, t)
       ELSE IF cmd = S("ROOMS") THEN handle_ROOMS(cl, rms, lam, i)
       ELSE IF cmd = S("QUIT") THEN handle_QUIT(cl, rms, lam, i)
       ELSE IF cmd = S("ADMIN") THEN handle_ADMIN(cl, rms, lam, i, t, ok)
       ELSE Res(cl, rms, lam, <<W(i, UnknownCommandLine(cmd))>>)

\* ------------------------------------------------------------ worker
\* The child of accept_and_spawn. Its username and room are its own copies;
\* they may hold '|' and are kept as sequences of Fields.
\* buf[0] == '/': the first words that begin with '/', words being atoms here
SlashWords ==
    {"/nick", "/join", "/rooms", "/history", "/pm", "/appeal", "/admin", "/quit", "/who"}

\* buf + n: the line after its first word and the space that follows it
AfterWord(line) == <<Tail(line[1])>> \o Tail(line)

\* strncmp(buf, "/word ", n) == 0
StartsWith(line, word) == line[1][1] = word /\ Len(line[1]) >= 2

\* what the worker does with one line read from its socket: its new username
\* and room (strncpy into char[64], a name taken as cut field by field), the
\* control messages it writes to the broker, whether it ends
WorkerLine(w, line) ==
    LET rest == AfterWord(line)
        name == [n \in DOMAIN rest |-> Cut(rest[n])]
        sp == First(rest, LAMBDA f : Len(f) >= 2)
        keep(out) == [username |-> w.username, room |-> w.room, out |-> out, exit |-> FALSE]
    IN IF line[1][1] \in SlashWords
       THEN IF StartsWith(line, "/nick")
            THEN [username |-> name, room |-> w.room,
                  out |-> << <<S("JOIN")>> \o name \o w.room >>, exit |-> FALSE]
            ELSE IF StartsWith(line, "/join")
            THEN [username |-> w.username, room |-> name,
                  out |-> << <<S("JOIN")>> \o w.username \o name >>, exit |-> FALSE]
            ELSE IF line = <<S("/rooms")>> THEN keep(<< <<S("ROOMS"), EmptyStr>> >>)
            ELSE IF line = <<S("/history")>> THEN keep(<< <<S("HISTORY")>> \o w.room >>)
            ELSE IF StartsWith(line, "/pm")
            THEN (IF sp = 0 THEN keep(<<>>)
                  ELSE keep(<< <<S("PM")>> \o w.username
                               \o SubSeq(rest, 1, sp - 1) \o <<S(rest[sp][1])>>
                               \o <<Tail(rest[sp])>> \o SubSeq(rest, sp + 1, Len(rest)) >>))
            ELSE IF StartsWith(line, "/appeal")
            THEN keep(<< <<S("APPEAL")>> \o w.username \o rest >>)
            ELSE IF StartsWith(line, "/admin")
            THEN keep(<< <<S("ADMIN")>> \o w.username \o rest >>)
            ELSE IF line = <<S("/quit")>>
            THEN [username |-> w.username, room |-> w.room,
                  out |-> << <<S("QUIT"), EmptyStr>> >>, exit |-> TRUE]
            ELSE keep(<<>>)
       ELSE keep(<< <<S("MSG")>> \o w.username \o w.room \o line >>)

\* ------------------------------------------------------------ state
VARIABLES
    clients,          \* clients[]: username, room, connected, muted, is_admin, and
                      \* whether to_child_fd and from_child_fd name an open pipe end
    rooms,            \* rooms[0 .. room_count-1]
    last_appeal_msg,  \* last_appeal_msg[]
    logs,             \* logs/<room>.log, by room name
    worker,           \* each slot's child: its username, its room and where it is
    c2p,              \* each slot's child-to-parent pipe: lines not yet read
    rfds,             \* handle_parent_messages: ready slots still to visit
    up,               \* the broker process runs
    lastOp,           \* what the broker did last
    sent,             \* the effects of it that happened, in order
    ghost,            \* history of each slot's current session
    klog,             \* by room, the command that appended each line of its log
    typed,            \* client inputs so far
    heirs,            \* by pid of a child in its loop whose slot the broker has
                      \* closed: the children that hold copies of the parent's
                      \* ends of its pipes (to_child_fd, from_child_fd)
    strays,           \* children still running whose slot holds a newer session
    shutdown          \* cleanup_and_exit: "no", "wait" in the wait() loop, "exit"

vars == <<clients, rooms, last_appeal_msg, logs, worker, c2p, rfds, up, lastOp, sent,
          ghost, klog, typed, heirs, strays, shutdown>>

\* joined: the name and room of the last JOIN the broker processed for the
\* session; authed: it presented the admin password; appeal: the text of the
\* last APPEAL processed for it; reached: that text was forwarded to an admin
\* for it since; muted: the last MUTE or UNMUTE that resolved
\* to it was a MUTE ("muted"), an UNMUTE ("unmuted"), or there was none
FreshGhost ==
    [joined |-> NULL, authed |-> FALSE, appeal |-> NULL, reached |-> FALSE, muted |-> "never"]
\* st: "run" in the select loop, "quit" after writing QUIT and leaving the
\* loop, "dead" once its descriptors are closed and it has exited; pid: the
\* process, named by its rank in fork order among the children that have not
\* exited, 0 when there is none
FreshWorker ==
    [username |-> <<S("unnamed")>>, room |-> <<S("lobby")>>, st |-> "dead", pid |-> 0]
Op(kind, slot, buf, lost) == [kind |-> kind, slot |-> slot, buf |-> buf, lost |-> lost]

Init ==
    /\ clients = [i \in Slots |-> [username |-> EmptyStr, room |-> EmptyStr,
                                   connected |-> FALSE, muted |-> FALSE,
                                   is_admin |-> FALSE,
                                   to_child_fd |-> "closed", from_child_fd |-> "closed"]]
    /\ rooms = <<S("lobby")>>
    /\ last_appeal_msg = [i \in Slots |-> EmptyStr]
    /\ logs = <<>>
    /\ worker = [i \in Slots |-> FreshWorker]
    /\ c2p = [i \in Slots |-> <<>>]
    /\ rfds = {}
    /\ up = TRUE
    /\ lastOp = Op("none", -1, <<>>, 0)
    /\ sent = <<>>
    /\ ghost = [i \in Slots |-> FreshGhost]
    /\ klog = <<>>
    /\ typed = 0
    /\ heirs = [p \in {} |-> {}]
    /\ strays = [p \in {} |-> "run"]
    /\ shutdown = "no"

\* ------------------------------------------------------------ broker steps
\* a select() that reports every descriptor it was given
Ready_every_connected(cl, wk, pipe) == {i \in Slots : cl[i].connected}

\* select() in handle_parent_messages: a connected slot is ready when its
\* pipe holds data or its worker has closed the write end (end of file)
Ready(cl, wk, pipe) ==
    {i \in Slots : cl[i].connected /\ (pipe[i] # <<>> \/ wk[i].st = "dead")}

\* The effects a handler gets through. A write to the pipe of a worker that
\* has closed its read end raises SIGPIPE, for which the server installs no
\* handler: the broker ends there and the later effects never happen.
Done(eff, wk) ==
    LET n == First(eff, LAMBDA e : e = Kill \/ (e.to >= 0 /\ wk[e.to].st = "dead"))
    IN IF n = 0 THEN eff ELSE SubSeq(eff, 1, n - 1)

\* append one entry to the sequence kept for room in lg
AppendAt(lg, room, x) ==
    IF room \in DOMAIN lg THEN [lg EXCEPT ![room] = Append(@, x)]
    ELSE lg @@ (room :> <<x>>)

RECURSIVE append_room_log(_, _)
\* the log files after the appends among eff
append_room_log(lg, eff) ==
    IF eff = <<>> THEN lg
    ELSE LET e == Head(eff)
         IN append_room_log(IF e.to = -1 THEN AppendAt(lg, e.room, e.line) ELSE lg,
                            Tail(eff))

RECURSIVE KindsAfter(_, _, _)
\* klog after the appends among eff, made by command cmd
KindsAfter(kl, eff, cmd) ==
    IF eff = <<>> THEN kl
    ELSE LET e == Head(eff)
         IN KindsAfter(IF e.to = -1 THEN AppendAt(kl, e.room, cmd) ELSE kl,
                       Tail(eff), cmd)

\* the sessions' histories after the broker dispatched buf, read from slot i
GhostAfter(g, cl, lam, i, buf) ==
    LET t == Tokens(buf)
        cmd == Tok(t, 1)
        a == AdminParse(t)
        arg == IF a.action_args # NULL THEN a.action_args ELSE a.next
        idx == find_client_by_name(cl, arg)
        sender_idx == find_client_by_name(cl, Tok(t, 2))
        dup == sender_idx >= 0 /\ lam[sender_idx] = RestOfLine(buf)
    IN IF cmd = S("JOIN") /\ Len(t) >= 3 THEN [g EXCEPT ![i].joined = <<t[2], t[3]>>]
       ELSE IF cmd = S("APPEAL") /\ Tok(t, 2) # NULL /\ RestOfLine(buf) # NULL
       THEN [g EXCEPT ![i].appeal = RestOfLine(buf),
                      ![i].reached = IF dup THEN g[i].appeal = RestOfLine(buf) /\ @
                                     ELSE \E k \in Slots : cl[k].connected /\ cl[k].is_admin]
       ELSE IF cmd = S("ADMIN") /\ Len(t) >= 3 /\ a.password = ADMIN_PASSWORD
       THEN IF a.action_word \in {S("MUTE"), S("UNMUTE")} /\ arg # NULL /\ idx >= 0
            THEN [g EXCEPT ![i].authed = TRUE,
                           ![idx].muted = IF a.action_word = S("MUTE") THEN "muted"
                                          ELSE "unmuted"]
            ELSE [g EXCEPT ![i].authed = TRUE]
       ELSE g

\* the children that have not exited
Alive(wk, st) == {wk[i].pid : i \in {j \in Slots : wk[j].st # "dead"}} \cup DOMAIN st

\* fork(): the pid of the new child, the last in fork order
NewPid(wk, st) == Cardinality(Alive(wk, st)) + 1

\* fork(): a child inherits every descriptor the parent holds open, the
\* to_child_fd and from_child_fd of every connected slot among them, and
\* closes none of them (661). While a slot is connected the copies of its two
\* descriptors are thus held by every child forked after its own. When the
\* broker closes the slots of gone, the holders of the copies are settled:
\* the later children that have not exited.
Orphaned(h, wk, st, gone) ==
    LET ps == {wk[i].pid : i \in {j \in gone : wk[j].st = "run"}}
    IN [q \in DOMAIN h \cup ps |->
           IF q \in DOMAIN h THEN h[q] ELSE {x \in Alive(wk, st) : x > q}]

\* the rank of child q once child p has exited, and back
Down(p, q) == IF q > p THEN q - 1 ELSE q
Up(p, q) == IF q >= p THEN q + 1 ELSE q

\* the child p has exited: its descriptors are closed
Reap(h, p) ==
    [q \in {Down(p, x) : x \in DOMAIN h \ {p}} |-> {Down(p, y) : y \in h[Up(p, q)] \ {p}}]

\* the child p has left its loop: who holds copies of its pipes matters no more
Forget(h, p) == [q \in DOMAIN h \ {p} |-> h[q]]

\* the slots' children and the strays once child p has exited
ReapWorker(wk, p) ==
    [i \in Slots |-> IF wk[i].pid = p THEN FreshWorker
                      ELSE [wk[i] EXCEPT !.pid = Down(p, @)]]
ReapStrays(st, p) == [q \in {Down(p, x) : x \in DOMAIN st \ {p}} |-> st[Up(p, q)]]

\* accept_and_spawn, then the select() of the handle_parent_messages that
\* follows it in the main loop. A child of the slot's earlier session that
\* has not exited stays behind as a stray.
Accept ==
    /\ up /\ rfds = {}
    /\ LET slot == find_free_slot(clients)
       IN IF slot < 0
          THEN /\ lastOp' = Op("full", -1, <<>>, 0)
               /\ sent' = <<>>
               /\ rfds' = Ready(clients, worker, c2p)
               /\ UNCHANGED <<clients, worker, c2p, ghost, strays>>
          ELSE /\ clients' = [clients EXCEPT ![slot] =
                                 [username |-> EmptyStr, room |-> EmptyStr,
                                  connected |-> TRUE, muted |-> FALSE,
                                  is_admin |-> @.is_admin,
                                  to_child_fd |-> "open", from_child_fd |-> "open"]]
               /\ worker' = [worker EXCEPT ![slot] =
                                [FreshWorker EXCEPT !.st = "run",
                                                    !.pid = NewPid(worker, strays)]]
               /\ strays' = IF worker[slot].st = "dead" THEN strays
                             ELSE strays @@ (worker[slot].pid :> worker[slot].st)
               /\ c2p' = [c2p EXCEPT ![slot] = <<>>]
               /\ ghost' = [ghost EXCEPT ![slot] = FreshGhost]
               /\ lastOp' = Op("accept", slot, <<>>, 0)
               /\ sent' = <<W(slot, BannerLine)>>
               /\ rfds' = Ready(clients', worker', c2p')
    /\ UNCHANGED <<rooms, last_appeal_msg, logs, up, klog, typed, heirs, shutdown>>

\* a main loop turn without a new connection: the select() of
\* handle_parent_messages finds slots ready
Select ==
    /\ up /\ rfds = {}
    /\ Ready(clients, worker, c2p) # {}
    /\ rfds' = Ready(clients, worker, c2p)
    /\ lastOp' = Op("select", -1, <<>>, 0)
    /\ sent' = <<>>
    /\ UNCHANGED <<clients, rooms, last_appeal_msg, logs, worker, c2p, up, ghost, klog, typed,
                   heirs, strays, shutdown>>

\* one turn of the for loop of handle_parent_messages, at the next slot
\* whose descriptor select() reported. When a write kills the broker its
\* memory goes with it: the registry is left as it was, the files stay.
Service ==
    /\ up /\ rfds # {}
    /\ LET i == CHOOSE k \in rfds : \A j \in rfds : k <= j
       IN /\ rfds' = rfds \ {i}
          /\ IF ~clients[i].connected
             THEN /\ lastOp' = Op("skip", i, <<>>, 0)
                  /\ sent' = <<>>
                  /\ UNCHANGED <<clients, rooms, last_appeal_msg, logs, c2p, up, ghost, klog,
                                 heirs>>
             ELSE IF c2p[i] = <<>>
             THEN /\ clients' = Released(clients, i)
                  /\ lastOp' = Op("eof", i, <<>>, 0)
                  /\ sent' = Closes(i)
                  /\ UNCHANGED <<rooms, last_appeal_msg, logs, c2p, up, ghost, klog, heirs>>
             ELSE \E ok \in FilterRuns :
                  LET buf == Head(c2p[i])
                      r == Dispatch(clients, rooms, last_appeal_msg, logs, i, buf, ok)
                      done == Done(r.eff, worker)
                  IN /\ logs' = append_room_log(logs, done)
                     /\ klog' = KindsAfter(klog, done, Tokens(buf)[1][1])
                     /\ c2p' = [c2p EXCEPT ![i] = <<>>]
                     /\ lastOp' = Op("dispatch", i, buf, Len(c2p[i]) - 1)
                     /\ sent' = done
                     /\ up' = (done = r.eff)
                     /\ IF done = r.eff
                        THEN /\ clients' = r.cl
                             /\ rooms' = r.rms
                             /\ last_appeal_msg' = r.lam
                             /\ ghost' = GhostAfter(ghost, clients, last_appeal_msg, i, buf)
                             /\ heirs' = Orphaned(heirs, worker, strays,
                                                  {k \in Slots : clients[k].connected
                                                                   /\ ~r.cl[k].connected})
                        ELSE UNCHANGED <<clients, rooms, last_appeal_msg, ghost, heirs>>
    /\ UNCHANGED <<worker, typed, strays, shutdown>>

\* SIGINT: the main loop ends at its next test of shutdown_requested, and
\* cleanup_and_exit writes the shutdown line to every connected slot, in slot
\* order, before it waits for the children
Shutdown ==
    /\ up /\ rfds = {}
    /\ LET eff == WriteEach(LAMBDA k : clients[k].connected, ShutdownLine)
           done == Done(eff, worker)
       IN /\ sent' = done
          /\ shutdown' = IF done = eff THEN "wait" ELSE "no"
    /\ up' = FALSE
    /\ lastOp' = Op("shutdown", -1, <<>>, 0)
    /\ UNCHANGED <<clients, rooms, last_appeal_msg, logs, worker, c2p, rfds, ghost, klog,
                   typed, heirs, strays>>

\* cleanup_and_exit: wait() finds no child left; the listening socket is
\* closed and the process exits
Exit ==
    /\ shutdown = "wait"
    /\ Alive(worker, strays) = {}
    /\ shutdown' = "exit"
    /\ lastOp' = Op("exit", -1, <<>>, 0)
    /\ sent' = <<>>
    /\ UNCHANGED <<clients, rooms, last_appeal_msg, logs, worker, c2p, rfds, up, ghost,
                   klog, typed, heirs, strays>>

\* ------------------------------------------------------------ worker steps
\* the worker of slot i reads a line from its client and handles it
ClientLine(i, line, budget) ==
    /\ up /\ clients[i].connected /\ worker[i].st = "run"
    /\ typed < budget
    /\ typed' = typed + 1
    /\ LET r == WorkerLine(worker[i], line)
       IN /\ worker' = [worker EXCEPT ![i] =
                           [username |-> r.username, room |-> r.room,
                            st |-> IF r.exit THEN "quit" ELSE "run",
                            pid |-> worker[i].pid]]
          /\ c2p' = [c2p EXCEPT ![i] = @ \o r.out]
    /\ lastOp' = Op("worker", -1, <<>>, 0)
    /\ sent' = <<>>
    /\ UNCHANGED <<clients, rooms, last_appeal_msg, logs, rfds, up, ghost, klog,
                   heirs, strays, shutdown>>

\* the children run while the broker serves and while it waits for them
Live == up \/ shutdown = "wait"

\* the client of slot i closes its connection: read(sock) returns 0
ClientEOF(i, budget) ==
    /\ Live /\ clients[i].connected /\ worker[i].st = "run"
    /\ typed < budget
    /\ typed' = typed + 1
    /\ worker' = [worker EXCEPT ![i].st = "quit"]
    /\ c2p' = [c2p EXCEPT ![i] = Append(@, <<S("QUIT"), EmptyStr>>)]
    /\ lastOp' = Op("worker", -1, <<>>, 0)
    /\ sent' = <<>>
    /\ UNCHANGED <<clients, rooms, last_appeal_msg, logs, rfds, up, ghost, klog,
                   heirs, strays, shutdown>>

\* a worker that left its loop closes readfd, writefd and sock and exits
WorkerExit(i) ==
    /\ Live /\ worker[i].st = "quit"
    /\ worker' = ReapWorker(worker, worker[i].pid)
    /\ strays' = ReapStrays(strays, worker[i].pid)
    /\ heirs' = Reap(heirs, worker[i].pid)
    /\ lastOp' = Op("worker", -1, <<>>, 0)
    /\ sent' = <<>>
    /\ UNCHANGED <<clients, rooms, last_appeal_msg, logs, c2p, rfds, up, ghost, klog, typed,
                   shutdown>>

\* a stray that left its loop closes its descriptors and exits
StrayExit(p) ==
    /\ Live /\ strays[p] = "quit"
    /\ strays' = ReapStrays(strays, p)
    /\ worker' = ReapWorker(worker, p)
    /\ heirs' = Reap(heirs, p)
    /\ lastOp' = Op("worker", -1, <<>>, 0)
    /\ sent' = <<>>
    /\ UNCHANGED <<clients, rooms, last_appeal_msg, logs, c2p, rfds, up, ghost,
                   klog, typed, shutdown>>

\* The child of slot i, whose slot the broker has closed (KICK), is still in
\* its loop; read(readfd) returns 0 once no process holds the write end of
\* that pipe, and the child leaves its loop (686-688).
KickedEOF(i) ==
    /\ Live /\ ~clients[i].connected /\ worker[i].st = "run"
    /\ heirs[worker[i].pid] = {}
    /\ worker' = [worker EXCEPT ![i].st = "quit"]
    /\ heirs' = Forget(heirs, worker[i].pid)
    /\ lastOp' = Op("worker", -1, <<>>, 0)
    /\ sent' = <<>>
    /\ UNCHANGED <<clients, rooms, last_appeal_msg, logs, c2p, rfds, up, ghost, klog, typed,
                   strays, shutdown>>

\* the client of that child closes its connection or types /quit: the child
\* writes QUIT to a pipe the broker reads no more and leaves its loop
KickedLeaves(i, budget) ==
    /\ Live /\ ~clients[i].connected /\ worker[i].st = "run"
    /\ typed < budget
    /\ typed' = typed + 1
    /\ worker' = [worker EXCEPT ![i].st = "quit"]
    /\ heirs' = Forget(heirs, worker[i].pid)
    /\ lastOp' = Op("worker", -1, <<>>, 0)
    /\ sent' = <<>>
    /\ UNCHANGED <<clients, rooms, last_appeal_msg, logs, c2p, rfds, up, ghost, klog,
                   strays, shutdown>>

\* the same two steps of a stray
StrayEOF(p) ==
    /\ Live /\ strays[p] = "run"
    /\ heirs[p] = {}
    /\ strays' = [strays EXCEPT ![p] = "quit"]
    /\ heirs' = Forget(heirs, p)
    /\ lastOp' = Op("worker", -1, <<>>, 0)
    /\ sent' = <<>>
    /\ UNCHANGED <<clients, rooms, last_appeal_msg, logs, worker, c2p, rfds, up, ghost,
                   klog, typed, shutdown>>

StrayLeaves(p, budget) ==
    /\ Live /\ strays[p] = "run"
    /\ typed < budget
    /\ typed' = typed + 1
    /\ strays' = [strays EXCEPT ![p] = "quit"]
    /\ heirs' = Forget(heirs, p)
    /\ lastOp' = Op("worker", -1, <<>>, 0)
    /\ sent' = <<>>
    /\ UNCHANGED <<clients, rooms, last_appeal_msg, logs, worker, c2p, rfds, up, ghost,
                   klog, shutdown>>

\* ------------------------------------------------------------ inputs
Line(words) == <<words>>

\* the broker's part of every specification
Broker == Accept \/ Select \/ Service

\* the end of a connection
Leave(budget) ==
    \/ \E i \in Slots : ClientEOF(i, budget) \/ WorkerExit(i)
    \/ \E p \in DOMAIN strays : StrayExit(p)

JoinLines == {Line(<<"/nick", "a">>), Line(<<"/join", "r1">>), Line(<<"hi", "bad">>)}

Next ==
    \/ Broker
    \/ \E i \in Slots, line \in JoinLines : ClientLine(i, line, MaxInput)
    \/ Leave(MaxInput)

Spec == Init /\ [][Next]_vars

\* sessions that present the admin password, right or wrong, and appeal
AdminLines ==
    {Line(<<"/admin", "admin123">>), Line(<<"/admin", "wrong">>), Line(<<"/appeal", "t">>)}

NextAdmin ==
    \/ Broker
    \/ \E i \in Slots, line \in AdminLines : ClientLine(i, line, MaxInput)
    \/ Leave(MaxInput)

SpecAdmin == Init /\ [][NextAdmin]_vars

\* sessions that join the lobby under a name, talk and ask for its history
HistLines == {Line(<<"/nick", "a">>), Line(<<"hi">>), Line(<<"/history">>)}

NextHist ==
    \/ Broker
    \/ \E i \in Slots, line \in HistLines : ClientLine(i, line, MaxInput)
    \/ Leave(MaxInput)

SpecHist == Init /\ [][NextHist]_vars

\* sessions that join a room and talk in it
RoomLines == {Line(<<"/join", "r1">>), Line(<<"hi">>)}

NextRoom ==
    \/ Broker
    \/ \E i \in Slots, line \in RoomLines : ClientLine(i, line, MaxInput + 1)
    \/ Leave(MaxInput + 1)

SpecRoom == Init /\ [][NextRoom]_vars

\* a named session that talks, and the admin commands that moderate it
ModerateLines ==
    {Line(<<"/nick", "a">>), Line(<<"hi">>),
     Line(<<"/admin", "admin123", "MUTE", "a">>),
     Line(<<"/admin", "admin123", "UNMUTE", "a">>),
     Line(<<"/admin", "admin123", "BROADCAST", "hi", "bad">>)}

NextModerate ==
    \/ Broker
    \/ \E i \in Slots, line \in ModerateLines : ClientLine(i, line, MaxInput + 1)
    \/ Leave(MaxInput + 1)

SpecModerate == Init /\ [][NextModerate]_vars

\* the children of kicked sessions
Kicked(budget) ==
    \/ \E i \in Slots : KickedEOF(i) \/ KickedLeaves(i, budget)
    \/ \E p \in DOMAIN strays : StrayEOF(p) \/ StrayLeaves(p, budget)

\* a named session, and the admin command that kicks it
KickLines == {Line(<<"/nick", "a">>), Line(<<"/admin", "admin123", "KICK", "a">>)}

NextKick ==
    \/ Broker
    \/ \E i \in Slots, line \in KickLines : ClientLine(i, line, MaxInput)
    \/ Leave(MaxInput)
    \/ Kicked(MaxInput)

SpecKick == Init /\ [][NextKick]_vars

\* a named session, and admin commands with a wrong password against it, as
\* the chat client sends them (hybrid form) and as admin_client sends them
\* (pipe form)
AuthLines ==
    {Line(<<"/nick", "a">>),
     Line(<<"/admin", "wrong", "KICK", "a">>),
     <<<<"/admin", "wrong">>, <<"MUTE">>, <<"a">>>>}

NextAuth ==
    \/ Broker
    \/ \E i \in Slots, line \in AuthLines : ClientLine(i, line, MaxInput)
    \/ Leave(MaxInput)

SpecAuth == Init /\ [][NextAuth]_vars

\* a session that presents the secret and then sends admin commands with and
\* without it
ReauthLines ==
    {Line(<<"/admin", "admin123">>),
     Line(<<"/admin", "wrong", "USERS">>),
     Line(<<"/admin", "admin123", "USERS">>)}

NextReauth ==
    \/ Broker
    \/ \E i \in Slots, line \in ReauthLines : ClientLine(i, line, MaxInput)
    \/ Leave(MaxInput)

SpecReauth == Init /\ [][NextReauth]_vars

\* sessions of which one is kicked, and the operator's SIGINT
NextShutdown ==
    \/ Broker
    \/ \E i \in Slots, line \in KickLines : ClientLine(i, line, MaxInput)
    \/ Leave(MaxInput)
    \/ Kicked(MaxInput)
    \/ Shutdown
    \/ Exit

SpecShutdown == Init /\ [][NextShutdown]_vars

\* sessions that join more rooms than the room table holds, and talk
FullLines == {Line(<<"/join", "r1">>), Line(<<"/join", "r2">>), Line(<<"/join", "r3">>)}

NextFull ==
    \/ Broker
    \/ \E i \in Slots, line \in FullLines : ClientLine(i, line, MaxInput)
    \/ Leave(MaxInput)

SpecFull == Init /\ [][NextFull]_vars

\* a named session, and private messages to its name and to a name nobody has
PMLines ==
    {Line(<<"/nick", "a">>), Line(<<"/pm", "a", "hi", "bad">>), Line(<<"/pm", "b", "hi">>)}

NextPM ==
    \/ Broker
    \/ \E i \in Slots, line \in PMLines : ClientLine(i, line, MaxInput)
    \/ Leave(MaxInput)

SpecPM == Init /\ [][NextPM]_vars

\* a named session, and admin commands in hybrid form as a chat client can
\* type them, the second with nothing after the space that follows KICK
FormLines ==
    {Line(<<"/nick", "a">>),
     Line(<<"/admin", "admin123", "MUTE", "a">>),
     Line(<<"/admin", "admin123", "KICK", "">>)}

NextForms ==
    \/ Broker
    \/ \E i \in Slots, line \in FormLines : ClientLine(i, line, MaxInput)
    \/ Leave(MaxInput)

SpecForms == Init /\ [][NextForms]_vars

\* sessions that join the room named "global" and talk
GlobalLines == {Line(<<"/join", "global">>), Line(<<"/join", "r1">>), Line(<<"hi">>)}

NextGlobal ==
    \/ Broker
    \/ \E i \in Slots, line \in GlobalLines : ClientLine(i, line, MaxInput)
    \/ Leave(MaxInput)

SpecGlobal == Init /\ [][NextGlobal]_vars

\* ------------------------------------------------------------ properties
\* the tokens of the control message the broker dispatched last
LastTokens == Tokens(lastOp.buf)

\* the broker's last step was the dispatch of a cmd message
Dispatched(cmd) == lastOp.kind = "dispatch" /\ Tok(LastTokens, 1) = S(cmd)

\* C1: while the broker runs, the registry name and room of every connected
\* session that has had a JOIN processed are those of the last JOIN processed
\* for it, whatever was processed for other sessions in between.
C1_JoinLastWriteWins ==
    \A i \in Slots :
        (up /\ clients[i].connected /\ ghost[i].joined # NULL)
            => /\ clients[i].username = ghost[i].joined[1]
               /\ clients[i].room = ghost[i].joined[2]

\* a session's second JOIN was followed by the JOIN of another session
C1_Witness ==
    /\ up /\ Dispatched("JOIN") /\ lastOp.slot = 1
    /\ clients[0].connected /\ clients[1].connected
    /\ ghost[0].joined = <<S("a"), S("r1")>>
    /\ ghost[1].joined # NULL /\ ghost[1].joined # ghost[0].joined

\* C4: with every slot occupied by a connected session, accepting a
\* connection answers "Server full" and changes neither the registry nor any
\* worker or channel.
C4_ServerFull ==
    [][((\A i \in Slots : clients[i].connected) /\ lastOp'.kind \in {"accept", "full"})
          => /\ lastOp'.kind = "full"
             /\ sent' = <<>>
             /\ UNCHANGED <<clients, worker, c2p, rooms, logs, last_appeal_msg>>]_vars

\* a connection was turned away while every slot was connected
C4_Witness == lastOp.kind = "full" /\ \A i \in Slots : clients[i].connected

\* C6: an ADMIN command with a password other than the secret leaves is_admin
\* of every session as it was; one with the secret leaves the requester with
\* is_admin set, action word or none, first time or repeated, and leaves
\* is_admin of every other session as it was.
C6_AdminGrant ==
    [][(up' /\ lastOp'.kind = "dispatch" /\ Tok(Tokens(lastOp'.buf), 1) = S("ADMIN")
            /\ Len(Tokens(lastOp'.buf)) >= 3)
          => LET i == lastOp'.slot
                 secret == AdminParse(Tokens(lastOp'.buf)).password = ADMIN_PASSWORD
             IN /\ \A k \in Slots \ {i} : clients'[k].is_admin = clients[k].is_admin
                /\ clients'[i].is_admin = (secret \/ clients[i].is_admin)]_vars

\* a session presented the secret with no action word after it, was answered
\* "Admin: no action" and is an admin, next to a connected session that is not
C6_Witness ==
    /\ up /\ Dispatched("ADMIN")
    /\ AdminParse(LastTokens).action_word = NULL
    /\ sent = <<W(lastOp.slot, AdminNoActionLine)>>
    /\ clients[lastOp.slot].is_admin
    /\ \E k \in Slots : clients[k].connected /\ ~clients[k].is_admin

\* C7: a connected session is an admin only if that session itself presented
\* the secret since it connected.
C7_GrantBoundToSession ==
    \A i \in Slots :
        (up /\ clients[i].connected /\ clients[i].is_admin) => ghost[i].authed

\* C3: an APPEAL whose text is that of the session's previous appeal, which
\* was forwarded to an admin, is not forwarded again and is answered with the
\* "already sent" line, whether or not the session has a name.
C3_AppealDedupe ==
    [][(lastOp'.kind = "dispatch" /\ Tok(Tokens(lastOp'.buf), 1) = S("APPEAL")
            /\ RestOfLine(lastOp'.buf) # NULL
            /\ ghost[lastOp'.slot].appeal = RestOfLine(lastOp'.buf)
            /\ ghost[lastOp'.slot].reached
            /\ worker[lastOp'.slot].st = "run")
          => sent' = <<W(lastOp'.slot, AppealDupLine)>>]_vars

\* C10: an APPEAL from a session that is still there, whose text differs
\* from the session's previous appeal, is written as "[APPEAL] from: T" once to every connected session with
\* is_admin, to no other session, and the sender is then told how many
\* admins it reached, or that no admin is online.
C10_AppealForward ==
    [][(lastOp'.kind = "dispatch" /\ Tok(Tokens(lastOp'.buf), 1) = S("APPEAL")
            /\ RestOfLine(lastOp'.buf) # NULL
            /\ ghost[lastOp'.slot].appeal # RestOfLine(lastOp'.buf)
            /\ worker[lastOp'.slot].st = "run")
          => LET i == lastOp'.slot
                 line == AppealLine(Tok(Tokens(lastOp'.buf), 2), RestOfLine(lastOp'.buf))
                 admins == {k \in Slots : clients[k].connected /\ clients[k].is_admin}
                 n == Cardinality(admins)
                 reply == IF n = 0 THEN AppealNoneLine ELSE AppealSentLine(n)
             IN /\ Len(sent') = n + 1
                /\ sent'[n + 1] = W(i, reply)
                /\ \A k \in admins : \E m \in 1 .. n : sent'[m] = W(k, line)
                /\ \A m \in 1 .. n : sent'[m].to \in admins /\ sent'[m].line = line]_vars

\* how many times the broker's step wrote line to slot k
Writes(eff, k, line) == Cardinality({m \in 1 .. Len(eff) : eff[m] = W(k, line)})

\* line was appended to room's log, once, and written once to every connected
\* session in room (any room, for "global") whose worker is there to read
\* it, and no session got anything else
Fanned(cl, wk, lg, lg2, eff, room, line) ==
    /\ lg2 = AppendAt(lg, room, line)
    /\ \A k \in Slots :
          (cl[k].connected /\ wk[k].st = "run" /\ (room = S("global") \/ cl[k].room = room))
              => Writes(eff, k, line) = 1
    /\ \A m \in 1 .. Len(eff) :
          eff[m].to >= 0
              => /\ eff[m].line = line
                 /\ cl[eff[m].to].connected
                 /\ room = S("global") \/ cl[eff[m].to].room = room

\* C8: a MSG(name, R, text) from a session that is not muted, R other than
\* "global", appends the one line "[R] name: sanitized-text" to R's log and
\* delivers it once to each connected session whose room is R, to no other.
C8_RoomDelivery ==
    [][(lastOp'.kind = "dispatch" /\ Tok(Tokens(lastOp'.buf), 1) = S("MSG")
            /\ Len(Tokens(lastOp'.buf)) >= 4
            /\ ~clients[lastOp'.slot].muted
            /\ Tokens(lastOp'.buf)[3] # S("global"))
          => LET t == Tokens(lastOp'.buf)
             IN \E x \in {t[4], FilterProgram(t[4])} :
                    Fanned(clients, worker, logs, logs', sent', t[3], RoomLine(t[3], t[2], x))]_vars

\* C9: an ADMIN BROADCAST text with the secret delivers the line
\* "[global] admin: text", the text as the sanitizer returns it, once to
\* every connected session, whatever its room.
C9_Broadcast ==
    [][(lastOp'.kind = "dispatch" /\ Tok(Tokens(lastOp'.buf), 1) = S("ADMIN")
            /\ Len(Tokens(lastOp'.buf)) >= 3
            /\ AdminParse(Tokens(lastOp'.buf)).password = ADMIN_PASSWORD
            /\ AdminParse(Tokens(lastOp'.buf)).action_word = S("BROADCAST")
            /\ AdminParse(Tokens(lastOp'.buf)).action_args # NULL)
          => LET text == AdminParse(Tokens(lastOp'.buf)).action_args
             IN \E x \in {text, FilterProgram(text)} :
                    Fanned(clients, worker, logs, logs', sent', S("global"),
                           RoomLine(S("global"), S("admin"), x))]_vars

\* C2: a MSG from a session whose last MUTE or UNMUTE was a MUTE is answered
\* "You are muted." to that session and nothing is logged or delivered; a
\* MSG from a session whose last one was an UNMUTE is logged and delivered to
\* the sessions of its room.
C2_MuteUnmute ==
    [][(lastOp'.kind = "dispatch" /\ Tok(Tokens(lastOp'.buf), 1) = S("MSG")
            /\ Len(Tokens(lastOp'.buf)) >= 4)
          => LET t == Tokens(lastOp'.buf)
                 i == lastOp'.slot
             IN /\ ghost[i].muted = "muted"
                      => sent' = <<W(i, MutedLine)>> /\ logs' = logs
                /\ ghost[i].muted = "unmuted"
                      => \E x \in {t[4], FilterProgram(t[4])} :
                             Fanned(clients, worker, logs, logs', sent', t[3],
                                    RoomLine(t[3], t[2], x))]_vars

\* the lines of room's log that MSG commands appended, in log order
MessageLines(room) ==
    LET at == SelectSeq([n \in 1 .. Len(logs[room]) |-> n],
                        LAMBDA n : klog[room][n] = "MSG")
    IN [n \in 1 .. Len(at) |-> logs[room][at[n]]]

\* eff is the start of the writes of lines to slot i
StartOf(eff, i, lines) ==
    /\ Len(eff) <= Len(lines)
    /\ \A n \in 1 .. Len(eff) : eff[n] = W(i, lines[n])

\* the broker's step dispatches HISTORY for a room with a log
HistoryStep ==
    /\ lastOp'.kind = "dispatch" /\ Tok(Tokens(lastOp'.buf), 1) = S("HISTORY")
    /\ Len(Tokens(lastOp'.buf)) >= 2
    /\ Tokens(lastOp'.buf)[2] \in DOMAIN logs

\* C5 as first stated: once MSG commands have appended lines to R's log,
\* HISTORY(R), asked by a session that is there to read it, streams exactly
\* those lines, in order.
C5_HistoryOnlyMessages ==
    [][(HistoryStep /\ worker[lastOp'.slot].st = "run"
            /\ MessageLines(Tokens(lastOp'.buf)[2]) # <<>>)
          => LET lines == MessageLines(Tokens(lastOp'.buf)[2])
             IN Len(sent') = Len(lines) /\ StartOf(sent', lastOp'.slot, lines)]_vars

\* C5 as amended: HISTORY(R) writes to the requester the lines of R's log in
\* append order, unaltered, and nothing else, all of them when the
\* requester's worker has not exited; it changes no log. The log holds, in
\* the order appended, the lines of MSG commands for R, the "a new user has
\* joined" notice of each JOIN into R and, for "global", admin broadcasts.
C5_HistoryIsLog ==
    [][HistoryStep
          => LET R == Tokens(lastOp'.buf)[2]
                 i == lastOp'.slot
             IN /\ StartOf(sent', i, logs[R])
                /\ worker[i].st # "dead" => Len(sent') = Len(logs[R])
                /\ logs' = logs
                /\ \A n \in 1 .. Len(logs[R]) :
                      \/ klog[R][n] = "MSG"
                      \/ /\ klog[R][n] = "JOIN"
                         /\ logs[R][n][3] = S("server")
                      \/ /\ klog[R][n] = "ADMIN"
                         /\ R = S("global")]_vars

\* HISTORY of the lobby was streamed in full from a log that holds a JOIN
\* notice followed by the line of a MSG
C5_Witness ==
    /\ up /\ Dispatched("HISTORY") /\ LastTokens[2] = S("lobby")
    /\ S("lobby") \in DOMAIN logs
    /\ Len(logs[S("lobby")]) >= 2
    /\ klog[S("lobby")][1] = "JOIN"
    /\ \E n \in 2 .. Len(logs[S("lobby")]) : klog[S("lobby")][n] = "MSG"
    /\ sent = [n \in 1 .. Len(logs[S("lobby")]) |-> W(lastOp.slot, logs[S("lobby")][n])]

\* C12: no write of the broker to a session's channel ends the broker: after
\* the dispatch of a control message, QUIT with its "Goodbye" and a room
\* broadcast included, the broker is still running, whether or not the worker
\* written to has exited.
C12_BrokerSurvives ==
    [][lastOp'.kind = "dispatch" => up']_vars

\* the broker's step dispatches an ADMIN command that carries the secret and
\* the action word
AdminStep(action) ==
    /\ lastOp'.kind = "dispatch" /\ Tok(Tokens(lastOp'.buf), 1) = S("ADMIN")
    /\ Len(Tokens(lastOp'.buf)) >= 3
    /\ AdminParse(Tokens(lastOp'.buf)).password = ADMIN_PASSWORD
    /\ AdminParse(Tokens(lastOp'.buf)).action_word = S(action)

\* the argument of that command
AdminArg ==
    LET a == AdminParse(Tokens(lastOp'.buf))
    IN IF a.action_args # NULL THEN a.action_args ELSE a.next

\* C11: an ADMIN KICK with the secret that names a connected session U whose
\* worker is in its loop leaves U's slot free and U's channel closed: no
\* process holds the broker's ends of U's pipes any more, so that U's worker
\* reads end of file on its inbound pipe and terminates, whether or not
\* workers of sessions accepted after U are running.
C11_KickEndsWorker ==
    [][(AdminStep("KICK") /\ AdminArg # NULL
            /\ find_client_by_name(clients, AdminArg) >= 0
            /\ worker[find_client_by_name(clients, AdminArg)].st = "run")
          => LET idx == find_client_by_name(clients, AdminArg)
             IN /\ up'
                /\ ~clients'[idx].connected
                /\ heirs'[worker[idx].pid] = {}]_vars

\* C13: an ADMIN command whose password is not the secret, whatever action
\* word and arguments come with it and in either wire form, writes "Admin
\* auth failed" to the requester, if its worker is there to read it, and
\* nothing else to anyone; the registry, the rooms, the logs and the appeal
\* memory are left as they were.
C13_AuthFailedFrame ==
    [][(lastOp'.kind = "dispatch" /\ Tok(Tokens(lastOp'.buf), 1) = S("ADMIN")
            /\ Len(Tokens(lastOp'.buf)) >= 3
            /\ AdminParse(Tokens(lastOp'.buf)).password # ADMIN_PASSWORD)
          => /\ sent' = IF worker[lastOp'.slot].st = "dead" THEN <<>>
                        ELSE <<W(lastOp'.slot, AdminAuthFailedLine)>>
             /\ UNCHANGED <<clients, rooms, logs, last_appeal_msg>>]_vars

\* a MUTE in pipe form with a wrong password, naming a connected session,
\* was answered "Admin auth failed" and that session is not muted
C13_Witness ==
    /\ up /\ Dispatched("ADMIN") /\ Len(LastTokens) = 5
    /\ AdminParse(LastTokens).password = S("wrong")
    /\ AdminParse(LastTokens).action_word = S("MUTE")
    /\ find_client_by_name(clients, LastTokens[5]) >= 0
    /\ ~clients[find_client_by_name(clients, LastTokens[5])].muted
    /\ sent = <<W(lastOp.slot, AdminAuthFailedLine)>>

\* the broker's step dispatches an ADMIN command, with a password, read from
\* a session that presented the secret before and is an admin
AdminAgainStep ==
    /\ lastOp'.kind = "dispatch" /\ Tok(Tokens(lastOp'.buf), 1) = S("ADMIN")
    /\ Len(Tokens(lastOp'.buf)) >= 3
    /\ clients[lastOp'.slot].is_admin /\ ghost[lastOp'.slot].authed

\* C14 as first stated: an ADMIN command from a session that is an admin,
\* with its worker there to read the reply, is not answered "Admin auth
\* failed".
C14_NoReauth ==
    [][(AdminAgainStep /\ worker[lastOp'.slot].st = "run")
          => sent' # <<W(lastOp'.slot, AdminAuthFailedLine)>>]_vars

\* C14 as amended: a connected session that is an admin stays one whatever
\* the broker dispatches, but each of its ADMIN commands is authenticated by
\* the password it carries: with the secret it is not answered "Admin auth
\* failed"; with another password it writes that reply to the requester, if
\* its worker is there to read it, and nothing else, and leaves the registry,
\* the rooms and the logs as they were.
C14_GrantPersistsAuthPerCommand ==
    [][/\ \A k \in Slots :
              (lastOp'.kind \in {"dispatch", "eof", "skip", "select"}
                   /\ clients[k].connected /\ clients[k].is_admin /\ clients'[k].connected)
                  => clients'[k].is_admin
       /\ AdminAgainStep
              => IF AdminParse(Tokens(lastOp'.buf)).password = ADMIN_PASSWORD
                 THEN \A m \in 1 .. Len(sent') : sent'[m].line # AdminAuthFailedLine
                 ELSE /\ sent' = IF worker[lastOp'.slot].st = "dead" THEN <<>>
                                 ELSE <<W(lastOp'.slot, AdminAuthFailedLine)>>
                      /\ UNCHANGED <<clients, rooms, logs>>]_vars

\* a session that is an admin sent USERS with a wrong password, was answered
\* "Admin auth failed" and is still an admin
C14_Witness ==
    /\ up /\ Dispatched("ADMIN")
    /\ AdminParse(LastTokens).password = S("wrong")
    /\ AdminParse(LastTokens).action_word = S("USERS")
    /\ ghost[lastOp.slot].authed
    /\ clients[lastOp.slot].connected /\ clients[lastOp.slot].is_admin
    /\ sent = <<W(lastOp.slot, AdminAuthFailedLine)>>

\* C15: at a shutdown signal the broker writes "/server_shutdown" once to
\* every connected session whose worker is there to read it, and the broker
\* process is gone, the listening socket released, only when every worker it
\* forked, those of kicked and freed sessions included, has exited.
C15_ShutdownWaits ==
    [][/\ lastOp'.kind = "shutdown"
              => \A k \in Slots :
                     (clients[k].connected /\ worker[k].st = "run")
                         => Writes(sent', k, ShutdownLine) = 1
       /\ (lastOp'.kind \in {"shutdown", "exit"} /\ shutdown' # "wait")
              => Alive(worker', strays') = {}]_vars

\* C16: with MAX_ROOMS rooms in the room table, a JOIN or a MSG that names
\* a room not in it, from a session whose worker is there to read the
\* answer, is answered with one line to the requester and nothing else
\* happens: the room table, the registry and every log are as they were and
\* no other session is written to.
C16_RoomTableFull ==
    [][(lastOp'.kind = "dispatch"
            /\ \/ Tok(Tokens(lastOp'.buf), 1) = S("JOIN") /\ Len(Tokens(lastOp'.buf)) >= 3
               \/ Tok(Tokens(lastOp'.buf), 1) = S("MSG") /\ Len(Tokens(lastOp'.buf)) >= 4
            /\ Len(rooms) = MAX_ROOMS
            /\ \A n \in 1 .. Len(rooms) : rooms[n] # Tokens(lastOp'.buf)[3]
            /\ worker[lastOp'.slot].st = "run")
          => /\ UNCHANGED <<rooms, clients, logs>>
             /\ Len(sent') = 1 /\ sent'[1].to = lastOp'.slot]_vars

\* C17: a PM(from, to, text) from a session whose worker is there to read
\* the answer is written as "[PM] from -> you: text", the text as the
\* sanitizer returns it, to the lowest connected slot whose name is to, and
\* then "PM sent" to the sender; when no connected session has that name the
\* sender is told "User not found"; nothing else is written to anyone and no
\* log changes.
C17_PrivateMessage ==
    [][(lastOp'.kind = "dispatch" /\ Tok(Tokens(lastOp'.buf), 1) = S("PM")
            /\ Len(Tokens(lastOp'.buf)) >= 4
            /\ worker[lastOp'.slot].st = "run")
          => LET t == Tokens(lastOp'.buf)
                 i == lastOp'.slot
                 named == {k \in Slots : clients[k].connected /\ clients[k].username = t[3]}
             IN /\ logs' = logs
                /\ IF named = {} THEN sent' = <<W(i, PMNotFoundLine(t[3]))>>
                   ELSE \E k \in named, x \in {t[4], FilterProgram(t[4])} :
                            /\ \A j \in named : k <= j
                            /\ sent' = <<W(k, PMLine(t[2], x)), W(i, PMSentLine(t[3]))>>]_vars

\* C18: when the broker dispatches an ADMIN command in hybrid form for
\* (name, password, action, args), what it writes and what it does to the
\* registry and the rooms is what the command in pipe form for the same
\* (name, password, action, args) does in the same state.
C18_FormsAgree ==
    [][(lastOp'.kind = "dispatch" /\ Len(lastOp'.buf) = 3
            /\ lastOp'.buf[1] = S("ADMIN") /\ Len(lastOp'.buf[3]) >= 3)
          => LET h == lastOp'.buf
                 name == h[2]
                 password == S(h[3][1])
                 action == S(h[3][2])
                 args == SubSeq(h[3], 3, Len(h[3]))
             IN /\ h = HybridForm(name, password, action, args)
                /\ \E ok \in FilterRuns :
                      LET r == Dispatch(clients, rooms, last_appeal_msg, logs, lastOp'.slot,
                                        PipeForm(name, password, action, args), ok)
                      IN /\ sent' = Done(r.eff, worker)
                         /\ up' => clients' = r.cl /\ rooms' = r.rms]_vars

\* C19: a session that has sent neither /nick nor /join is in "lobby" for
\* the broker as it is for its worker: a MSG for "lobby" that the broker
\* dispatches and survives is written to every such connected session whose
\* worker is running, the sender included.
C19_DefaultRoom ==
    [][(lastOp'.kind = "dispatch" /\ Tok(Tokens(lastOp'.buf), 1) = S("MSG")
            /\ Len(Tokens(lastOp'.buf)) >= 4
            /\ Tokens(lastOp'.buf)[3] = S("lobby")
            /\ ~clients[lastOp'.slot].muted
            /\ up')
          => \A k \in Slots :
                 (clients[k].connected /\ ghost[k].joined = NULL /\ worker[k].st = "run"
                      /\ worker[k].room = <<S("lobby")>>)
                     => \E m \in 1 .. Len(sent') : sent'[m].to = k]_vars

\* C20: a JOIN or a MSG read from a session that has not presented the admin
\* secret, whatever room it names, writes nothing to a connected session
\* whose room is not that room, the requester's welcome apart.
C20_GlobalReserved ==
    [][(lastOp'.kind = "dispatch"
            /\ \/ Tok(Tokens(lastOp'.buf), 1) = S("JOIN") /\ Len(Tokens(lastOp'.buf)) >= 3
               \/ Tok(Tokens(lastOp'.buf), 1) = S("MSG") /\ Len(Tokens(lastOp'.buf)) >= 4
            /\ ~ghost[lastOp'.slot].authed /\ ~clients[lastOp'.slot].is_admin)
          => \A m \in 1 .. Len(sent') :
                 (sent'[m].to >= 0 /\ sent'[m].to # lastOp'.slot)
                     => clients'[sent'[m].to].room = Tokens(lastOp'.buf)[3]]_vars

\* no connected session's worker has exited: every write of the broker's
\* step to a session's channel finds its reader
ReadersThere == \A k \in Slots : clients[k].connected => worker[k].st = "run"

\* C21: whatever becomes of the filter process, answering or not, a MSG from
\* a session that is not muted and a PM, dispatched while the workers of the
\* connected sessions are there to read, are logged and delivered as usual,
\* with the text as the filter printed it or, failing that, unchanged, and
\* the broker is running afterwards.
C21_FilterUnavailable ==
    [][(lastOp'.kind = "dispatch" /\ Len(Tokens(lastOp'.buf)) >= 4 /\ ReadersThere
            /\ \/ Tok(Tokens(lastOp'.buf), 1) = S("MSG") /\ ~clients[lastOp'.slot].muted
               \/ Tok(Tokens(lastOp'.buf), 1) = S("PM"))
          => LET t == Tokens(lastOp'.buf)
                 k == find_client_by_name(clients, t[3])
             IN /\ up'
                /\ \E x \in {t[4], FilterProgram(t[4])} :
                      IF t[1] = S("MSG")
                      THEN Fanned(clients, worker, logs, logs', sent', t[3],
                                  RoomLine(t[3], t[2], x))
                      ELSE IF k >= 0
                      THEN sent' = <<W(k, PMLine(t[2], x)), W(lastOp'.slot, PMSentLine(t[3]))>>
                      ELSE sent' = <<W(lastOp'.slot, PMNotFoundLine(t[3]))>>]_vars

\* the slot whose session the broker's step ends, -1 when it ends none: the
\* slot read from at end of file and at a QUIT, the slot a KICK resolves to
Ended ==
    IF lastOp'.kind = "eof" THEN lastOp'.slot
    ELSE IF lastOp'.kind = "dispatch" /\ Tok(Tokens(lastOp'.buf), 1) = S("QUIT")
    THEN lastOp'.slot
    ELSE IF AdminStep("KICK") /\ AdminArg # NULL
    THEN find_client_by_name(clients, AdminArg)
    ELSE -1

\* how many times the broker's step closed descriptor fd of slot k
ClosesOf(eff, k, fd) == Cardinality({m \in 1 .. Len(eff) : eff[m] = Close(k, fd)})

\* the broker's step ends no session or releases the slot of the one it ends;
\* it reads no channel of a free slot, writes to none, and closes only
\* descriptors that are open, each once
CleanStep ==
    /\ Ended >= 0
           => /\ ~clients'[Ended].connected
              /\ ClosesOf(sent', Ended, "from_child_fd") = 1
              /\ ClosesOf(sent', Ended, "to_child_fd") = 1
    /\ up' => \A k \in Slots :
                  clients'[k].connected
                      <=> (clients'[k].from_child_fd = "open"
                              /\ clients'[k].to_child_fd = "open")
    /\ lastOp'.kind \in {"dispatch", "eof"} => clients[lastOp'.slot].connected
    /\ \A m \in 1 .. Len(sent') :
           /\ sent'[m].to >= 0
                 => /\ \/ clients[sent'[m].to].connected
                       \/ lastOp'.kind = "accept" /\ sent'[m].to = lastOp'.slot
                    /\ \A n \in 1 .. (m - 1) : sent'[n] # Close(sent'[m].to, "to_child_fd")
           /\ \A k \in Slots, fd \in {"from_child_fd", "to_child_fd"} :
                 sent'[m] = Close(k, fd)
                     => clients[k][fd] = "open" /\ ClosesOf(sent', k, fd) = 1

\* C22: a step of the broker that ends a session (end of file on its
\* channel, its QUIT, a KICK that names it) closes each of the slot's two
\* descriptors once and leaves the slot free. While the broker runs a slot is
\* connected exactly when both of its descriptors are open, and the broker
\* reads no channel of a free slot, writes to none and closes no descriptor
\* that is not open.
C22_Teardown == [][CleanStep]_vars

\* C23: the control messages a worker writes to its channel are dispatched
\* one by one in the order written: a dispatch takes the oldest message that
\* is waiting in the channel and leaves the ones written after it, be there
\* one or several, for the dispatches that follow; no message is dropped.
C23_EveryMessageDispatched ==
    [][lastOp'.kind = "dispatch"
          => /\ lastOp'.buf = Head(c2p[lastOp'.slot])
             /\ c2p'[lastOp'.slot] = Tail(c2p[lastOp'.slot])
             /\ lastOp'.lost = 0]_vars

\* the log of room, empty when it has no file
LogOf(lg, room) == IF room \in DOMAIN lg THEN lg[room] ELSE <<>>

\* the line is a room line, "[R] sender: text"
IsRoomLine(line) == Len(line) = 4 /\ line[1] = S("[room]")

\* C24: the room lines reach the sessions of a room in the order of the
\* room's log, which is the order in which the broker processed the
\* commands. A log only grows, at its end, by at most one line per command
\* dispatched. A room line of R is written to a session only by the step
\* that appends it to R's log, after the append, once, and only to a
\* connected session whose room is R or that joins R by the command (any
\* session for "global"): what a
\* session that stays in R has received up to any moment is therefore a
\* subsequence of R's log in log order, and so for any two of them. (The
\* replay of a log that answers a HISTORY request is not a delivery of room
\* lines and is left apart.)
C24_RoomOrder ==
    [][/\ \A R \in DOMAIN logs :
              /\ R \in DOMAIN logs'
              /\ Len(logs'[R]) \in {Len(logs[R]), Len(logs[R]) + 1}
              /\ SubSeq(logs'[R], 1, Len(logs[R])) = logs[R]
       /\ ~(lastOp'.kind = "dispatch" /\ Tok(Tokens(lastOp'.buf), 1) = S("HISTORY"))
              => \A m \in 1 .. Len(sent') :
                     (sent'[m].to >= 0 /\ IsRoomLine(sent'[m].line))
                         => LET R == sent'[m].line[2]
                                k == sent'[m].to
                            IN /\ logs' = AppendAt(logs, R, sent'[m].line)
                               /\ \E n \in 1 .. (m - 1) : sent'[n] = L(R, sent'[m].line)
                               /\ Writes(sent', k, sent'[m].line) = 1
                               /\ clients[k].connected
                               /\ \/ R = S("global")
                                  \/ clients[k].room = R
                                  \/ /\ k = lastOp'.slot
                                     /\ Tokens(lastOp'.buf)[1] = S("JOIN")
                                     /\ Tokens(lastOp'.buf)[3] = R]_vars

\* a MSG for the lobby was appended as the third line of its log, after two
\* join notices, and then written to the two sessions in the lobby, the lower
\* slot first
C24_Witness ==
    /\ up /\ Dispatched("MSG") /\ LastTokens[3] = S("lobby")
    /\ clients[0].room = S("lobby") /\ clients[1].room = S("lobby")
    /\ Len(LogOf(logs, S("lobby"))) = 3
    /\ LET line == logs[S("lobby")][3]
       IN sent = <<L(S("lobby"), line), W(0, line), W(1, line)>>

\* C25: a multiplex cycle begins, at a select(), only when the cycle before
\* it has visited every slot it found ready, and finds ready the connected
\* slots with input, or end of file, pending. Within the cycle the broker
\* visits the ready slots one by one in increasing slot order, each once: it
\* reads from the slot if it is still connected and passes it over, reading
\* nothing and writing nothing, if the slot was freed earlier in the cycle.
\* No slot is therefore read a second time while another that was ready waits.
C25_CycleOrder ==
    [][/\ lastOp'.kind \in {"select", "accept", "full"}
              => /\ rfds = {}
                 /\ rfds' = {k \in Slots : clients'[k].connected
                                              /\ (c2p'[k] # <<>> \/ worker'[k].st = "dead")}
       /\ lastOp'.kind \in {"dispatch", "eof", "skip"}
              => LET i == lastOp'.slot
                 IN /\ i \in rfds /\ \A j \in rfds : i <= j
                    /\ rfds' = rfds \ {i}
                    /\ \A j \in rfds' : j > i
                    /\ (lastOp'.kind = "skip") <=> ~clients[i].connected
                    /\ lastOp'.kind = "skip"
                          => sent' = <<>> /\ UNCHANGED <<clients, c2p, rooms, logs>>
                    /\ lastOp'.kind = "dispatch" => c2p[i] # <<>> /\ c2p'[i] # c2p[i]
                    /\ lastOp'.kind = "eof" => c2p[i] = <<>> /\ worker[i].st = "dead"
       /\ lastOp'.kind \in {"worker", "shutdown", "exit"} => rfds' = rfds]_vars

\* two slots were ready in one cycle; the command read from slot 0 kicked the
\* session of slot 1, and slot 1 was passed over with its input unread
C25_Witness ==
    /\ up /\ lastOp.kind = "skip" /\ lastOp.slot = 1
    /\ rfds = {}
    /\ ~clients[1].connected /\ c2p[1] # <<>>
    /\ clients[0].connected /\ clients[0].is_admin

\* C26: a connection is given the lowest slot that is free, a slot the
\* broker has released (not connected, both descriptors closed), and is
\* turned away only when none is free; the other slots, their sessions and
\* their workers are left as they are. The slot gets a child of its own: no
\* process is the worker of two slots, a child of the slot's earlier session
\* that still runs is the worker of no slot any more, and no step other
\* than an accept moves a worker to another slot (the workers that stay keep
\* their fork order slot by slot).
C26_SlotAllocation ==
    [][/\ lastOp'.kind = "accept"
              => LET s == lastOp'.slot
                 IN /\ ~clients[s].connected
                    /\ clients[s].to_child_fd = "closed" /\ clients[s].from_child_fd = "closed"
                    /\ \A j \in 0 .. (s - 1) : clients[j].connected
                    /\ clients'[s].connected
                    /\ worker'[s].pid \notin Alive(worker, strays)
                    /\ \A k \in Slots \ {s} : clients'[k] = clients[k] /\ worker'[k] = worker[k]
       /\ lastOp'.kind = "full" => \A j \in Slots : clients[j].connected
       /\ \A i \in Slots :
              worker'[i].st # "dead"
                  => /\ worker'[i].pid \notin DOMAIN strays'
                     /\ \A j \in Slots \ {i} :
                           worker'[j].st # "dead" => worker'[j].pid # worker'[i].pid
       /\ \A i, j \in Slots :
              (lastOp'.kind # "accept"
                   /\ worker[i].st # "dead" /\ worker'[i].st # "dead"
                   /\ worker[j].st # "dead" /\ worker'[j].st # "dead")
                  => (worker[i].pid < worker[j].pid <=> worker'[i].pid < worker'[j].pid)]_vars

\* slot 0 was given to a new connection after its session was kicked, next
\* to the session of slot 1; the child of the kicked session still runs
C26_Witness ==
    /\ up /\ lastOp.kind = "accept" /\ lastOp.slot = 0
    /\ clients[0].connected /\ clients[1].connected
    /\ \E p \in DOMAIN strays : strays[p] = "run" /\ p # worker[0].pid

\* a session whose worker holds the empty name, so that the first field of
\* what it types next is read as the room of its MSG, and a line of two
\* fields of which the first is longer than a room name can be
LongLines ==
    {Line(<<"/nick", "">>), <<<<Long70>>, <<"x">>>>, Line(<<"/join", "r1">>)}

NextLong ==
    \/ Broker
    \/ \E i \in Slots, line \in LongLines : ClientLine(i, line, MaxInput)
    \/ Leave(MaxInput)

SpecLong == Init /\ [][NextLong]_vars

\* the step is the dispatch of a command that names room R and is carried
\* out: a JOIN, a MSG from a session that is not muted, an ADMIN BROADCAST
\* (R = "global") with the secret
Names(R) ==
    /\ lastOp'.kind = "dispatch"
    /\ \/ /\ Tok(Tokens(lastOp'.buf), 1) = S("JOIN") /\ Len(Tokens(lastOp'.buf)) >= 3
          /\ Tokens(lastOp'.buf)[3] = R
       \/ /\ Tok(Tokens(lastOp'.buf), 1) = S("MSG") /\ Len(Tokens(lastOp'.buf)) >= 4
          /\ Tokens(lastOp'.buf)[3] = R /\ ~clients[lastOp'.slot].muted
       \/ AdminStep("BROADCAST") /\ R = S("global")

\* C27: the room directory only grows, at its end: a name once in it stays
\* in it. It never holds the same name twice and never more than MAX_ROOMS
\* names. A JOIN, a MSG that is fanned out or a BROADCAST that the broker
\* dispatches and survives leaves the room it names in the directory,
\* unless the directory is full; no other step changes the directory.
C27_RoomDirectory ==
    [][/\ Len(rooms') >= Len(rooms) /\ SubSeq(rooms', 1, Len(rooms)) = rooms
       /\ \A m, n \in 1 .. Len(rooms') : rooms'[m] = rooms'[n] => m = n
       /\ Len(rooms') <= MAX_ROOMS
       /\ rooms' # rooms => \E R \in {Tok(Tokens(lastOp'.buf), 3), S("global")} : Names(R)
       /\ \A R \in {Tok(Tokens(lastOp'.buf), 3), S("global")} :
              (Names(R) /\ up' /\ Len(rooms) < MAX_ROOMS)
                  => \E n \in 1 .. Len(rooms') : rooms'[n] = Cut(R)]_vars

\* a session that takes the name a worker starts with, sessions that appeal,
\* and an admin to receive the appeals
AppealLines ==
    {Line(<<"/nick", "unnamed">>), Line(<<"/appeal", "t">>), Line(<<"/admin", "admin123">>)}

NextAppeal ==
    \/ Broker
    \/ \E i \in Slots, line \in AppealLines : ClientLine(i, line, MaxInput)
    \/ Leave(MaxInput)

SpecAppeal == Init /\ [][NextAppeal]_vars

\* the broker's step dispatches an APPEAL and answers it "already sent"
AppealSuppressed ==
    /\ lastOp'.kind = "dispatch" /\ Tok(Tokens(lastOp'.buf), 1) = S("APPEAL")
    /\ \E m \in 1 .. Len(sent') : sent'[m] = W(lastOp'.slot, AppealDupLine)

\* C28: an APPEAL is answered "already sent", and not forwarded, only if its
\* text is that of the last appeal the same session sent since it
\* connected; appeals of other sessions, of the same name or earlier in the
\* same slot, do not count.
C28_OwnAppealOnly ==
    [][AppealSuppressed
          => /\ ghost[lastOp'.slot].appeal = RestOfLine(lastOp'.buf)
             /\ sent' = <<W(lastOp'.slot, AppealDupLine)>>]_vars

\* C29: an APPEAL is answered "already sent" only if its text was written
\* as "[APPEAL] from: T" to at least one admin for an earlier appeal of the
\* session: an appeal answered "No admins currently online" does not
\* suppress its repetition.
C29_ForwardedBeforeSuppressed ==
    [][AppealSuppressed
          => \/ ghost[lastOp'.slot].appeal # RestOfLine(lastOp'.buf)
             \/ ghost[lastOp'.slot].reached]_vars

\* two named sessions, the MUTE of one of them, and a private message to
\* the other
MutedLines ==
    {Line(<<"/nick", "a">>), Line(<<"/nick", "b">>),
     Line(<<"/admin", "admin123", "MUTE", "a">>), Line(<<"/pm", "b", "hi">>)}

NextMuted ==
    \/ Broker
    \/ \E i \in Slots, line \in MutedLines : ClientLine(i, line, MaxInput + 1)
    \/ Leave(MaxInput + 1)

SpecMuted == Init /\ [][NextMuted]_vars

\* the broker's step dispatches a message with command cmd read from a
\* session that is muted
MutedSays(cmd) ==
    /\ lastOp'.kind = "dispatch" /\ Tok(Tokens(lastOp'.buf), 1) = S(cmd)
    /\ clients[lastOp'.slot].muted

\* C30: of a MSG, a PM or an APPEAL read from a muted session nothing is
\* written to the worker of another session, except an APPEAL to the
\* workers of admins; a JOIN, which changes the name and the room of a
\* session, leaves its muted flag as it is.
C30_MutedWithheld ==
    [][/\ MutedSays("MSG") \/ MutedSays("PM") \/ MutedSays("APPEAL")
          => \A m \in 1 .. Len(sent') :
                 \/ sent'[m].to < 0
                 \/ sent'[m].to = lastOp'.slot
                 \/ MutedSays("APPEAL") /\ clients[sent'[m].to].is_admin
       /\ lastOp'.kind = "dispatch" /\ Tok(Tokens(lastOp'.buf), 1) = S("JOIN")
          => clients'[lastOp'.slot].muted = clients[lastOp'.slot].muted]_vars

====
